---- MODULE Spec2Model ----
(***************************************************************************)
(* Model of the genshin-teammate-bot: the profile dialog (src/bot.py,      *)
(* class Form and its handlers), the browsing cursor (view_contexts,       *)
(* send_profile_with_actions, handle_action_message) and the SQLite store  *)
(* (src/db.py).                                                            *)
(*                                                                         *)
(* Text is modelled as Python sees it: a str is a sequence of one-char     *)
(* strings, so strip/upper/split/join/int()/str() are computed, not        *)
(* assumed.  A dict is a function whose DOMAIN is its key set.             *)
(* Handlers are dispatched as aiogram 2 does: a handler registered without *)
(* state= only runs while the user's FSM state is None.                    *)
(*                                                                         *)
(* A handler is one action, except the Like branch, which SpecLike takes   *)
(* one await at a time.  The Telegram calls that answer the sender of an   *)
(* event are taken to return; the message handles kept in a cursor are     *)
(* not modelled.                                                           *)
(***************************************************************************)
EXTENDS Integers, Sequences, FiniteSets, Bags, TLC

\* ------------------------------------------------------------------ bounds

NumUsers == 2
NumServers == 2
NumLangs == 2
MaxClock == 3
MaxAttempts == 2

\* ------------------------------------------------------- Python str helpers

Min(a, b) == IF a <= b THEN a ELSE b

Digits == <<"0", "1", "2", "3", "4", "5", "6", "7", "8", "9">>
LowerCase == <<"a", "b", "c", "d", "e", "f", "g", "h", "i", "j", "k", "l", "m",
               "n", "o", "p", "q", "r", "s", "t", "u", "v", "w", "x", "y", "z">>
UpperCase == <<"A", "B", "C", "D", "E", "F", "G", "H", "I", "J", "K", "L", "M",
               "N", "O", "P", "Q", "R", "S", "T", "U", "V", "W", "X", "Y", "Z">>
\* the characters the model's inputs are written in, in code-point order
CodePoints == <<" ", "+", ",", "-", "/", "0", "1", "2", "3", "4", "5", "6", "7",
                "8", "9", ":", "@", "A", "B", "C", "D", "E", "F", "G", "H", "I",
                "J", "K", "L", "M", "N", "O", "P", "Q", "R", "S", "T", "U", "V",
                "W", "X", "Y", "Z", "_", "a", "b", "c", "d", "e", "f", "g", "h",
                "i", "j", "k", "l", "m", "n", "o", "p", "q", "r", "s", "t", "u",
                "v", "w", "x", "y", "z">>

IndexIn(seq, c) == CHOOSE i \in 1..Len(seq) : seq[i] = c
Occurs(seq, c) == \E i \in 1..Len(seq) : seq[i] = c

IsDigit(c) == Occurs(Digits, c)
DigitVal(c) == IndexIn(Digits, c) - 1
UpperChar(c) == IF Occurs(LowerCase, c) THEN UpperCase[IndexIn(LowerCase, c)] ELSE c
LowerChar(c) == IF Occurs(UpperCase, c) THEN LowerCase[IndexIn(UpperCase, c)] ELSE c

\* str.upper(), str.lower()
Upper(s) == [i \in 1..Len(s) |-> UpperChar(s[i])]
Lower(s) == [i \in 1..Len(s) |-> LowerChar(s[i])]

\* str.strip()
RECURSIVE LStrip(_)
LStrip(s) == IF Len(s) > 0 /\ s[1] = " " THEN LStrip(Tail(s)) ELSE s
RECURSIVE RStrip(_)
RStrip(s) == IF Len(s) > 0 /\ s[Len(s)] = " " THEN RStrip(SubSeq(s, 1, Len(s) - 1)) ELSE s
Strip(s) == RStrip(LStrip(s))

\* s.replace(c, "")
Remove(s, c) == SelectSeq(s, LAMBDA x : x # c)

\* s.startswith(p), s[:n], s[n:]
StartsWith(s, p) == Len(s) >= Len(p) /\ SubSeq(s, 1, Len(p)) = p
Prefix(s, n) == SubSeq(s, 1, Min(n, Len(s)))
Drop(s, n) == SubSeq(s, n + 1, Len(s))

\* s.split(c)
RECURSIVE Split(_, _)
Split(s, c) ==
    IF ~Occurs(s, c) THEN <<s>>
    ELSE LET k == CHOOSE i \in 1..Len(s) : s[i] = c /\ \A j \in 1..(i - 1) : s[j] # c
         IN <<SubSeq(s, 1, k - 1)>> \o Split(SubSeq(s, k + 1, Len(s)), c)

\* s.split(c, 1)
SplitOnce(s, c) ==
    IF ~Occurs(s, c) THEN <<s>>
    ELSE LET k == CHOOSE i \in 1..Len(s) : s[i] = c /\ \A j \in 1..(i - 1) : s[j] # c
         IN <<SubSeq(s, 1, k - 1), SubSeq(s, k + 1, Len(s))>>

\* s.split(): the whitespace-separated words
Words(s) == SelectSeq(Split(s, " "), LAMBDA w : Len(w) > 0)

\* c.join(parts)
RECURSIVE Join(_, _)
Join(parts, c) ==
    IF Len(parts) = 0 THEN <<>>
    ELSE IF Len(parts) = 1 THEN parts[1]
    ELSE parts[1] \o <<c>> \o Join(Tail(parts), c)

\* a < b on str: lexicographic by code point
RECURSIVE StrLess(_, _)
StrLess(a, b) ==
    IF Len(a) = 0 THEN Len(b) > 0
    ELSE IF Len(b) = 0 THEN FALSE
    ELSE IF a[1] = b[1] THEN StrLess(Tail(a), Tail(b))
    ELSE IndexIn(CodePoints, a[1]) < IndexIn(CodePoints, b[1])

\* sorted(S) for a set of str
RECURSIVE Sorted(_)
Sorted(S) ==
    IF S = {} THEN <<>>
    ELSE LET m == CHOOSE x \in S : \A y \in S \ {x} : StrLess(x, y)
         IN <<m>> \o Sorted(S \ {m})

\* int(s): [ok, val]; ok = FALSE stands for ValueError.  Python strips
\* whitespace, takes one optional sign and digits with single underscores
\* between them.
RECURSIVE DigitsVal(_)
DigitsVal(s) ==
    IF Len(s) = 0 THEN 0
    ELSE 10 * DigitsVal(SubSeq(s, 1, Len(s) - 1)) + DigitVal(s[Len(s)])

IntBodyOk(b) ==
    /\ Len(b) > 0
    /\ \A i \in 1..Len(b) : IsDigit(b[i]) \/ b[i] = "_"
    /\ IsDigit(b[1]) /\ IsDigit(b[Len(b)])
    /\ \A i \in 1..(Len(b) - 1) : ~(b[i] = "_" /\ b[i + 1] = "_")

PyInt(s) ==
    LET t == Strip(s)
        signed == Len(t) > 0 /\ t[1] \in {"+", "-"}
        body == IF signed THEN Tail(t) ELSE t
        mag == DigitsVal(Remove(body, "_"))
    IN IF IntBodyOk(body)
       THEN [ok |-> TRUE, val |-> IF signed /\ t[1] = "-" THEN 0 - mag ELSE mag]
       ELSE [ok |-> FALSE, val |-> 0]

\* str(n) for an int
RECURSIVE NatStr(_)
NatStr(n) == IF n < 10 THEN <<Digits[n + 1]>> ELSE NatStr(n \div 10) \o <<Digits[(n % 10) + 1]>>
PyStr(n) == IF n < 0 THEN <<"-">> \o NatStr(0 - n) ELSE NatStr(n)

\* dict.get(k, default) and dict update
Get(d, k, default) == IF k \in DOMAIN d THEN d[k] ELSE default
Put(d, k, v) == [x \in (DOMAIN d) \cup {k} |-> IF x = k THEN v ELSE d[x]]
EmptyDict == [x \in {} |-> 0]

\* -------------------------------------------------------- program constants

EmptyStr == <<>>
DASH == <<"-">>

SERVERS == << <<"A", "s", "i", "a">>, <<"E", "u", "r", "o", "p", "e">>, <<"N", "A">>,
              <<"T", "W">>, <<"C", "N">> >>

LANG_BUTTONS == << <<"R", "U">>, <<"E", "N">>, <<"U", "A">>, <<"B", "Y">>, <<"K", "Z">>,
                   <<"R", "S">>, <<"E", "E">>, <<"B", "G">>, <<"L", "T">>, <<"L", "V">>,
                   <<"G", "E">>, <<"M", "D">> >>

NICK_MAX == 64
BIO_MAX == 500
PLAYTIME_TEXT_MAX == 64
AR_MIN == 1
AR_MAX == 60
MSK_MIN == 0 - 12
MSK_MAX == 14

S_DONE == <<"D", "O", "N", "E">>
S_yes == <<"y", "e", "s">>
S_no == <<"n", "o">>
S_MSK == <<"M", "S", "K">>
P_server == <<"s", "e", "r", "v", "e", "r", ":">>
P_lang == <<"l", "a", "n", "g", ":">>
P_confirm == <<"c", "o", "n", "f", "i", "r", "m", ":">>
P_browse_server == <<"b", "r", "o", "w", "s", "e", "_", "s", "e", "r", "v", "e", "r", ":">>
P_dev_delete == <<"d", "e", "v", ":", "d", "e", "l", "e", "t", "e", ":">>
CB_profile_edit == <<"p", "r", "o", "f", "i", "l", "e", ":", "e", "d", "i", "t">>
CB_profile_delete_confirm == <<"p", "r", "o", "f", "i", "l", "e", ":", "d", "e", "l", "e", "t", "e",
                               "_", "c", "o", "n", "f", "i", "r", "m">>
CB_profile_delete == <<"p", "r", "o", "f", "i", "l", "e", ":", "d", "e", "l", "e", "t", "e">>
CB_profile_delete_cancel == <<"p", "r", "o", "f", "i", "l", "e", ":", "d", "e", "l", "e", "t", "e",
                              "_", "c", "a", "n", "c", "e", "l">>
P_complain == <<"c", "o", "m", "p", "l", "a", "i", "n", ":">>
CMD_start == <<"s", "t", "a", "r", "t">>
CMD_help == <<"h", "e", "l", "p">>
CMD_edit == <<"e", "d", "i", "t">>
CMD_cancel == <<"c", "a", "n", "c", "e", "l">>
CMD_delete_profile == <<"d", "e", "l", "e", "t", "e", "_", "p", "r", "o", "f", "i", "l", "e">>

\* The four reply-keyboard labels.  The program's labels are an emoji and a
\* Russian word; the model writes each as its English word, which keeps them
\* four distinct texts that are no command and no number.
BTN_LIKE == <<"L", "i", "k", "e">>
BTN_MESSAGE == <<"M", "e", "s", "s", "a", "g", "e">>
BTN_DISLIKE == <<"D", "i", "s", "l", "i", "k", "e">>
BTN_STOP == <<"S", "t", "o", "p">>
ACTION_TEXTS == {BTN_LIKE, BTN_MESSAGE, BTN_DISLIKE, BTN_STOP}

\* FSM states of class Form; None is the state outside any dialog
None == "None"
FormStates == {"choosing_server", "nickname", "uid", "adventure_rank", "languages",
               "playtime", "bio", "confirm", "sending_message"}

\* Whether the SQLite connections enforce FOREIGN KEY clauses.  SQLite leaves
\* them off unless a connection runs PRAGMA foreign_keys = ON; db.py opens
\* every connection with aiosqlite.connect(DB_PATH) and never runs it.
ForeignKeysEnforced == FALSE

Users == 1..NumUsers
ServerKeys == {SERVERS[i] : i \in 1..Len(SERVERS)}
LangCodes == {LANG_BUTTONS[i] : i \in 1..Len(LANG_BUTTONS)}

\* ------------------------------------------------------------------- state

VARIABLES
    profiles,        \* table profiles: tg_id -> row (tg_id is UNIQUE)
    likes,           \* table likes: a bag of rows [owner_id, viewer_id]
    clock,           \* datetime.utcnow(), as the number of the next insert
    state,           \* MemoryStorage: user -> FSM state
    data,            \* MemoryStorage: user -> FSM data dict
    view_contexts,   \* viewer -> browsing cursor
    developer,       \* DEVELOPER_ID_INT: {} for None, {id} otherwise
    blocked,         \* the users bot.send_message cannot reach (it raises)
    tasks,           \* handle_action_message invocations suspended at an await
    returns,         \* what each add_like call returned, per (viewer, owner)
    last             \* the event handled last: its sender, handler and text, the
                     \* sender's session and cursor before it, and whether the
                     \* event before it was the same one

vars == <<profiles, likes, clock, state, data, view_contexts, developer, blocked, tasks,
          returns, last>>

\* ------------------------------------------------------------ src/db.py

LikeRow(viewer_id, owner_id) == [owner_id |-> owner_id, viewer_id |-> viewer_id]

\* variant: nickname and uid bound to each other's column
ProfileRow_Swapped(tg_id, d, created_at) ==
    [tg_id |-> tg_id,
     server |-> Get(d, "server", EmptyStr),
     nickname |-> Get(d, "uid", EmptyStr),
     uid |-> Get(d, "nickname", EmptyStr),
     adventure_rank |-> Get(d, "adventure_rank", EmptyStr),
     languages |-> Get(d, "languages", EmptyStr),
     playtime |-> Get(d, "playtime", EmptyStr),
     bio |-> Get(d, "bio", EmptyStr),
     platforms |-> Get(d, "platforms", EmptyStr),
     playstyle |-> Get(d, "playstyle", EmptyStr),
     created_at |-> created_at]

ProfileRow(tg_id, d, created_at) ==
    [tg_id |-> tg_id,
     server |-> Get(d, "server", EmptyStr),
     nickname |-> Get(d, "nickname", EmptyStr),
     uid |-> Get(d, "uid", EmptyStr),
     adventure_rank |-> Get(d, "adventure_rank", EmptyStr),
     languages |-> Get(d, "languages", EmptyStr),
     playtime |-> Get(d, "playtime", EmptyStr),
     bio |-> Get(d, "bio", EmptyStr),
     platforms |-> Get(d, "platforms", EmptyStr),
     playstyle |-> Get(d, "playstyle", EmptyStr),
     created_at |-> created_at]

\* save_profile: UPDATE the row of tg_id (created_at kept) or INSERT one
save_profile(rows, now, tg_id, d) ==
    IF tg_id \in DOMAIN rows
    THEN Put(rows, tg_id, ProfileRow(tg_id, d, rows[tg_id].created_at))
    ELSE Put(rows, tg_id, ProfileRow(tg_id, d, now))

get_profile_by_tg(rows, tg_id) == IF tg_id \in DOMAIN rows THEN <<rows[tg_id]>> ELSE <<>>

\* DELETE FROM profiles WHERE tg_id = ?
delete_profile_rows(rows, tg_id) == [t \in (DOMAIN rows) \ {tg_id} |-> rows[t]]

\* what that DELETE does to the likes table: ON DELETE CASCADE acts only on a
\* connection that enforces foreign keys
delete_profile_likes(lk, tg_id) ==
    IF ForeignKeysEnforced
    THEN [r \in {x \in DOMAIN lk : x.owner_id # tg_id} |-> lk[r]]
    ELSE lk

count_profiles(rows, server) == Cardinality({t \in DOMAIN rows : rows[t].server = server})

\* variant: ORDER BY created_at ASC
RECURSIVE NewestFirst_OldestFirst(_, _)
NewestFirst_OldestFirst(rows, ids) ==
    IF ids = {} THEN <<>>
    ELSE LET t == CHOOSE x \in ids : \A y \in ids : rows[x].created_at <= rows[y].created_at
         IN <<rows[t]>> \o NewestFirst_OldestFirst(rows, ids \ {t})

\* ORDER BY created_at DESC
RECURSIVE NewestFirst(_, _)
NewestFirst(rows, ids) ==
    IF ids = {} THEN <<>>
    ELSE LET t == CHOOSE x \in ids : \A y \in ids : rows[y].created_at <= rows[x].created_at
         IN <<rows[t]>> \o NewestFirst(rows, ids \ {t})

\* ... LIMIT ? OFFSET ?
list_profiles(rows, server, limit, offset) ==
    LET all == NewestFirst(rows, {t \in DOMAIN rows : rows[t].server = server})
    IN SubSeq(all, offset + 1, Min(offset + limit, Len(all)))

\* variant: a likes table without its PRIMARY KEY
add_like_inserted_NoKey(lk, rows, viewer_id, owner_id) ==
    ForeignKeysEnforced => owner_id \in DOMAIN rows

\* INSERT INTO likes: IntegrityError on a duplicate PRIMARY KEY (owner_id,
\* viewer_id) and, where foreign keys are enforced, on an owner without profile
add_like_inserted(lk, rows, viewer_id, owner_id) ==
    /\ ~BagIn(LikeRow(viewer_id, owner_id), lk)
    /\ (ForeignKeysEnforced => owner_id \in DOMAIN rows)

add_like(lk, rows, viewer_id, owner_id) ==
    IF add_like_inserted(lk, rows, viewer_id, owner_id)
    THEN lk (+) SetToBag({LikeRow(viewer_id, owner_id)})
    ELSE lk

\* variant: the SELECT finds no row
has_liked_Never(lk, viewer_id, owner_id) == FALSE

has_liked(lk, viewer_id, owner_id) == BagIn(LikeRow(viewer_id, owner_id), lk)

get_likes_count(lk, owner_id) ==
    BagCardinality([r \in {x \in DOMAIN lk : x.owner_id = owner_id} |-> lk[r]])

\* ------------------------------------------------- aiogram dispatch filters

\* commands=[...]: the first word is "/" and one of the names, in any case
IsCommand(text, names) ==
    LET w == Words(text)
    IN /\ Len(w) > 0
       /\ w[1][1] = "/"
       /\ Lower(Tail(w[1])) \in names

CtxOf(u) == IF u \in DOMAIN view_contexts THEN <<view_contexts[u]>> ELSE <<>>

\* the record of the event being handled
Handled(u, handler, text) ==
    last' = [user |-> u, handler |-> handler, text |-> text,
             state |-> state[u], data |-> data[u], ctx |-> CtxOf(u),
             repeat |-> (last.user = u /\ last.handler = handler /\ last.text = text)]

NoEvent == [user |-> 0, handler |-> "start", text |-> EmptyStr,
            state |-> None, data |-> EmptyDict, ctx |-> <<>>, repeat |-> FALSE]

SetState(u, s) == state' = [state EXCEPT ![u] = s]
SetData(u, d) == data' = [data EXCEPT ![u] = d]
\* state.finish(): the state and the data dict are both reset
Finish(u) == SetState(u, None) /\ SetData(u, EmptyDict)

\* ------------------------------------------------- src/bot.py: the dialog

\* set(p.strip().upper() for p in langs_raw.split(",") if p.strip())
LangSet(langs_raw) ==
    LET parts == Split(langs_raw, ",")
    IN {Upper(Strip(parts[i])) : i \in {j \in 1..Len(parts) : Len(Strip(parts[j])) > 0}}

Editing(d) == Get(d, "editing", FALSE)

\* /start, /help
cmd_start(u, text) ==
    /\ state[u] = None
    /\ IsCommand(text, {CMD_start, CMD_help})
    /\ IF u \in DOMAIN profiles
       THEN UNCHANGED state
       ELSE SetState(u, "choosing_server")
    /\ Handled(u, "cmd_start", text)
    /\ UNCHANGED <<profiles, likes, clock, data, view_contexts, developer, blocked, tasks, returns>>

\* variant: the edit dialog opens without the stored row in the session
EditEntry_Unloaded(u) ==
    IF u \in DOMAIN profiles
    THEN /\ SetData(u, Put(data[u], "editing", TRUE))
         /\ SetState(u, "nickname")
    ELSE UNCHANGED <<state, data>>

\* state.update_data(**prof, editing=True); Form.nickname.set()
EditEntry(u) ==
    IF u \in DOMAIN profiles
    THEN LET prof == profiles[u]
             loaded == [k \in (DOMAIN data[u]) \cup (DOMAIN prof) |->
                           IF k \in DOMAIN prof THEN prof[k] ELSE data[u][k]]
         IN /\ SetData(u, Put(loaded, "editing", TRUE))
            /\ SetState(u, "nickname")
    ELSE UNCHANGED <<state, data>>

\* /edit
cmd_edit(u, text) ==
    /\ state[u] = None
    /\ IsCommand(text, {CMD_edit})
    /\ EditEntry(u)
    /\ Handled(u, "cmd_edit", text)
    /\ UNCHANGED <<profiles, likes, clock, view_contexts, developer, blocked, tasks, returns>>

\* /edit when the reply after state.update_data raises (the chat cannot be
\* written to): the handler ends there, before Form.nickname.set()
cmd_edit_answer_raises(u, text) ==
    /\ state[u] = None
    /\ IsCommand(text, {CMD_edit})
    /\ u \in DOMAIN profiles
    /\ LET prof == profiles[u]
           loaded == [k \in (DOMAIN data[u]) \cup (DOMAIN prof) |->
                         IF k \in DOMAIN prof THEN prof[k] ELSE data[u][k]]
       IN SetData(u, Put(loaded, "editing", TRUE))
    /\ Handled(u, "cmd_edit", text)
    /\ UNCHANGED <<profiles, likes, clock, state, view_contexts, developer, blocked, tasks, returns>>

\* button profile:edit
profile_edit_callback(u, cb) ==
    /\ state[u] = None
    /\ cb = CB_profile_edit
    /\ EditEntry(u)
    /\ Handled(u, "profile_edit_callback", cb)
    /\ UNCHANGED <<profiles, likes, clock, view_contexts, developer, blocked, tasks, returns>>

\* button profile:delete_confirm
profile_delete_confirm(u, cb) ==
    /\ state[u] = None
    /\ cb = CB_profile_delete_confirm
    /\ profiles' = delete_profile_rows(profiles, u)
    /\ likes' = delete_profile_likes(likes, u)
    /\ Handled(u, "profile_delete_confirm", cb)
    /\ UNCHANGED <<clock, state, data, view_contexts, developer, blocked, tasks, returns>>

\* button profile:delete: the two-button question is sent
profile_delete_request(u, cb) ==
    /\ state[u] = None
    /\ cb = CB_profile_delete
    /\ Handled(u, "profile_delete_request", cb)
    /\ UNCHANGED <<profiles, likes, clock, state, data, view_contexts, developer, blocked, tasks, returns>>

\* button profile:delete_cancel
profile_delete_cancel(u, cb) ==
    /\ state[u] = None
    /\ cb = CB_profile_delete_cancel
    /\ Handled(u, "profile_delete_cancel", cb)
    /\ UNCHANGED <<profiles, likes, clock, state, data, view_contexts, developer, blocked, tasks, returns>>

\* button complain:<owner>:<profile>: the report is sent to the developer,
\* or logged when none is configured or the sending raises
handle_complain(u, cb) ==
    /\ state[u] = None
    /\ StartsWith(cb, P_complain)
    /\ Handled(u, "handle_complain", cb)
    /\ UNCHANGED <<profiles, likes, clock, state, data, view_contexts, developer, blocked, tasks, returns>>

\* button server:<key> while choosing_server
process_server_with_state(u, cb) ==
    /\ state[u] = "choosing_server"
    /\ StartsWith(cb, P_server)
    /\ SetData(u, Put(data[u], "server", SplitOnce(cb, ":")[2]))
    /\ SetState(u, "nickname")
    /\ Handled(u, "process_server_with_state", cb)
    /\ UNCHANGED <<profiles, likes, clock, view_contexts, developer, blocked, tasks, returns>>

process_nickname(u, text) ==
    /\ state[u] = "nickname"
    /\ LET txt == Strip(text)
       IN IF ~(txt = DASH /\ Editing(data[u]))
          THEN SetData(u, Put(data[u], "nickname", Prefix(txt, NICK_MAX)))
          ELSE UNCHANGED data
    /\ SetState(u, "uid")
    /\ Handled(u, "process_nickname", text)
    /\ UNCHANGED <<profiles, likes, clock, view_contexts, developer, blocked, tasks, returns>>

\* variant: the UID step hands over to the languages step
process_uid_SkipRank(u, text) ==
    /\ state[u] = "uid"
    /\ LET txt == Strip(text)
       IN IF ~(txt = DASH /\ Editing(data[u]))
          THEN SetData(u, Put(data[u], "uid", IF txt # DASH THEN txt ELSE EmptyStr))
          ELSE UNCHANGED data
    /\ SetState(u, "languages")
    /\ Handled(u, "process_uid", text)
    /\ UNCHANGED <<profiles, likes, clock, view_contexts, developer, blocked, tasks, returns>>

process_uid(u, text) ==
    /\ state[u] = "uid"
    /\ LET txt == Strip(text)
       IN IF ~(txt = DASH /\ Editing(data[u]))
          THEN SetData(u, Put(data[u], "uid", IF txt # DASH THEN txt ELSE EmptyStr))
          ELSE UNCHANGED data
    /\ SetState(u, "adventure_rank")
    /\ Handled(u, "process_uid", text)
    /\ UNCHANGED <<profiles, likes, clock, view_contexts, developer, blocked, tasks, returns>>

\* variant: the lower end of the range is not compared
ArInRange_NoLower(ar) == ar <= AR_MAX

\* variant: the upper end of the range is not compared
ArInRange_NoUpper(ar) == AR_MIN <= ar

\* 1 <= ar <= 60
ArInRange(ar) == AR_MIN <= ar /\ ar <= AR_MAX

\* variant: "-" clears the rank while editing too
ArStep_DashClears(txt, editing) ==
    IF txt = DASH THEN [advance |-> TRUE, store |-> TRUE, value |-> EmptyStr]
    ELSE LET ar == PyInt(txt)
         IN IF ~ar.ok THEN [advance |-> FALSE, store |-> FALSE, value |-> EmptyStr]
            ELSE IF ~ArInRange(ar.val) THEN [advance |-> FALSE, store |-> FALSE, value |-> EmptyStr]
            ELSE [advance |-> TRUE, store |-> TRUE, value |-> PyStr(ar.val)]

\* the outcome of process_ar on txt: [advance, store, value]
ArStep(txt, editing) ==
    IF txt = DASH /\ editing THEN [advance |-> TRUE, store |-> FALSE, value |-> EmptyStr]
    ELSE IF txt = DASH THEN [advance |-> TRUE, store |-> TRUE, value |-> EmptyStr]
    ELSE LET ar == PyInt(txt)
         IN IF ~ar.ok THEN [advance |-> FALSE, store |-> FALSE, value |-> EmptyStr]
            ELSE IF ~ArInRange(ar.val) THEN [advance |-> FALSE, store |-> FALSE, value |-> EmptyStr]
            ELSE [advance |-> TRUE, store |-> TRUE, value |-> PyStr(ar.val)]

process_ar(u, text) ==
    /\ state[u] = "adventure_rank"
    /\ LET r == ArStep(Strip(text), Editing(data[u]))
       IN /\ IF r.store THEN SetData(u, Put(data[u], "adventure_rank", r.value))
                        ELSE UNCHANGED data
          /\ IF r.advance THEN SetState(u, "languages") ELSE UNCHANGED state
    /\ Handled(u, "process_ar", text)
    /\ UNCHANGED <<profiles, likes, clock, view_contexts, developer, blocked, tasks, returns>>

\* variant: a selected code is never removed
Toggle_AddOnly(selected, action) == selected \cup {action}

\* selected.remove(action) / selected.add(action)
Toggle(selected, action) ==
    IF action \in selected THEN selected \ {action} ELSE selected \cup {action}

\* button lang:<code> or lang:DONE while in languages
process_lang_toggle(u, cb) ==
    /\ state[u] = "languages"
    /\ StartsWith(cb, P_lang)
    /\ LET action == SplitOnce(cb, ":")[2]
           selected == LangSet(Get(data[u], "languages", EmptyStr))
       IN IF action \in LangCodes
          THEN /\ SetData(u, Put(data[u], "languages", Join(Sorted(Toggle(selected, action)), ",")))
               /\ UNCHANGED state
          ELSE IF action = S_DONE
          THEN SetState(u, "playtime") /\ UNCHANGED data
          ELSE UNCHANGED <<state, data>>
    /\ Handled(u, "process_lang_toggle", cb)
    /\ UNCHANGED <<profiles, likes, clock, view_contexts, developer, blocked, tasks, returns>>

\* variant: a text moves the dialog on as Done does
process_languages_text_blocked_Advances(u, text) ==
    /\ state[u] = "languages"
    /\ SetState(u, "playtime")
    /\ Handled(u, "process_languages_text_blocked", text)
    /\ UNCHANGED <<profiles, likes, clock, data, view_contexts, developer, blocked, tasks, returns>>

process_languages_text_blocked(u, text) ==
    /\ state[u] = "languages"
    /\ Handled(u, "process_languages_text_blocked", text)
    /\ UNCHANGED <<profiles, likes, clock, state, data, view_contexts, developer, blocked, tasks, returns>>

\* the MSK offset process_playtime reads from val: [ok, val], ok = FALSE for None
ParseOffset(val) ==
    IF StartsWith(val, S_MSK)
    THEN LET rest == Drop(val, 3)
         IN IF rest \in {EmptyStr, <<"+">>, <<"+", "0">>}
            THEN [ok |-> TRUE, val |-> 0]
            ELSE PyInt(Remove(rest, "+"))
    ELSE PyInt(val)

\* variant: the plus sign only for parsed > 0
FormatOffset_ZeroUnsigned(parsed) ==
    S_MSK \o (IF parsed > 0 THEN <<"+">> \o PyStr(parsed) ELSE PyStr(parsed))

\* sign = f"+{parsed}" if parsed >= 0 else str(parsed); f"MSK{sign}"
FormatOffset(parsed) ==
    S_MSK \o (IF parsed >= 0 THEN <<"+">> \o PyStr(parsed) ELSE PyStr(parsed))

OffsetInRange(parsed) == MSK_MIN <= parsed /\ parsed <= MSK_MAX

\* the outcome of process_playtime on txt: [advance, store, value]
PlaytimeStep(txt, editing) ==
    IF txt = DASH /\ editing THEN [advance |-> TRUE, store |-> FALSE, value |-> EmptyStr]
    ELSE IF txt = DASH THEN [advance |-> TRUE, store |-> TRUE, value |-> EmptyStr]
    ELSE LET parsed == ParseOffset(Remove(Upper(txt), " "))
         IN IF ~parsed.ok
            THEN IF 1 <= Len(txt) /\ Len(txt) <= PLAYTIME_TEXT_MAX
                 THEN [advance |-> TRUE, store |-> TRUE, value |-> Prefix(txt, PLAYTIME_TEXT_MAX)]
                 ELSE [advance |-> FALSE, store |-> FALSE, value |-> EmptyStr]
            ELSE IF ~OffsetInRange(parsed.val)
                 THEN [advance |-> FALSE, store |-> FALSE, value |-> EmptyStr]
                 ELSE [advance |-> TRUE, store |-> TRUE, value |-> FormatOffset(parsed.val)]

process_playtime(u, text) ==
    /\ state[u] = "playtime"
    /\ LET r == PlaytimeStep(Strip(text), Editing(data[u]))
       IN /\ IF r.store THEN SetData(u, Put(data[u], "playtime", r.value))
                        ELSE UNCHANGED data
          /\ IF r.advance THEN SetState(u, "bio") ELSE UNCHANGED state
    /\ Handled(u, "process_playtime", text)
    /\ UNCHANGED <<profiles, likes, clock, view_contexts, developer, blocked, tasks, returns>>

process_bio(u, text) ==
    /\ state[u] = "bio"
    /\ LET txt == Strip(text)
       IN IF ~(txt = DASH /\ Editing(data[u]))
          THEN SetData(u, Put(data[u], "bio", Prefix(txt, BIO_MAX)))
          ELSE UNCHANGED data
    /\ SetState(u, "confirm")
    /\ Handled(u, "process_bio", text)
    /\ UNCHANGED <<profiles, likes, clock, view_contexts, developer, blocked, tasks, returns>>

\* data_to_save: the session without "editing", platforms/playstyle defaulted
DataToSave(d) ==
    LET kept == [k \in (DOMAIN d) \ {"editing"} |-> d[k]]
        withPlatforms == IF "platforms" \in DOMAIN kept THEN kept ELSE Put(kept, "platforms", EmptyStr)
    IN IF "playstyle" \in DOMAIN withPlatforms THEN withPlatforms
       ELSE Put(withPlatforms, "playstyle", EmptyStr)

\* variant: the profile is saved whatever the choice
process_confirm_RejectSaves(u, cb) ==
    /\ state[u] = "confirm"
    /\ StartsWith(cb, P_confirm)
    /\ (u \notin DOMAIN profiles => clock <= MaxClock)
    /\ profiles' = save_profile(profiles, clock, u, DataToSave(data[u]))
    /\ clock' = IF u \in DOMAIN profiles THEN clock ELSE clock + 1
    /\ Finish(u)
    /\ Handled(u, "process_confirm", cb)
    /\ UNCHANGED <<likes, view_contexts, developer, blocked, tasks, returns>>

\* button confirm:<choice> while in confirm
process_confirm(u, cb) ==
    /\ state[u] = "confirm"
    /\ StartsWith(cb, P_confirm)
    /\ LET choice == SplitOnce(cb, ":")[2]
       IN IF choice = S_yes
          THEN /\ (u \notin DOMAIN profiles => clock <= MaxClock)
               /\ profiles' = save_profile(profiles, clock, u, DataToSave(data[u]))
               /\ clock' = IF u \in DOMAIN profiles THEN clock ELSE clock + 1
          ELSE UNCHANGED <<profiles, clock>>
    /\ Finish(u)
    /\ Handled(u, "process_confirm", cb)
    /\ UNCHANGED <<likes, view_contexts, developer, blocked, tasks, returns>>

\* /cancel
cmd_cancel(u, text) ==
    /\ state[u] = None
    /\ IsCommand(text, {CMD_cancel})
    /\ Finish(u)
    /\ Handled(u, "cmd_cancel", text)
    /\ UNCHANGED <<profiles, likes, clock, view_contexts, developer, blocked, tasks, returns>>

\* a text no message handler is registered for in the sender's state:
\* choosing_server and confirm have callback handlers only
unhandled_message(u, text) ==
    /\ state[u] \in {"choosing_server", "confirm"}
    /\ Handled(u, "unhandled", text)
    /\ UNCHANGED <<profiles, likes, clock, state, data, view_contexts, developer, blocked, tasks, returns>>

\* ------------------------------------------------ src/bot.py: browsing

\* get_owner_id returns None when the row carries no truthy id; None is
\* written 0, which no Telegram user has
NoOwner == 0
get_owner_id(prof) == IF prof.tg_id # 0 THEN prof.tg_id ELSE NoOwner

\* variant: the entry is left in the table
Pop_Keep(vc, u) == vc

\* view_contexts.pop(user_id, None)
Pop(vc, u) == [v \in (DOMAIN vc) \ {u} |-> vc[v]]

\* variant: the cursor keeps the offset asked for, not the clamped one
send_profile_with_actions_RawOffset(vc, rows, viewer_id, server, offset) ==
    LET total == count_profiles(rows, server)
        nonneg == IF offset < 0 THEN 0 ELSE offset
        clamped == IF nonneg >= total THEN total - 1 ELSE nonneg
        found == list_profiles(rows, server, 1, clamped)
    IN IF total = 0 THEN vc
       ELSE IF Len(found) = 0 THEN vc
       ELSE Put(vc, viewer_id,
                [server |-> server, offset |-> nonneg, total |-> total,
                 owner_id |-> get_owner_id(found[1]),
                 profile_id |-> get_owner_id(found[1])])

\* variant: neither the empty count nor the empty page ends the rendering
send_profile_with_actions_Unchecked(vc, rows, viewer_id, server, offset) ==
    LET total == count_profiles(rows, server)
        nonneg == IF offset < 0 THEN 0 ELSE offset
        clamped == IF nonneg >= total THEN total - 1 ELSE nonneg
        found == IF total = 0 THEN <<>> ELSE list_profiles(rows, server, 1, clamped)
        owner == IF Len(found) = 0 THEN NoOwner ELSE get_owner_id(found[1])
    IN Put(vc, viewer_id,
           [server |-> server, offset |-> clamped, total |-> total,
            owner_id |-> owner, profile_id |-> owner])

\* send_profile_with_actions: the cursor table after rendering (server,
\* offset) for the viewer; the message handles are not modelled
send_profile_with_actions(vc, rows, viewer_id, server, offset) ==
    LET total == count_profiles(rows, server)
        nonneg == IF offset < 0 THEN 0 ELSE offset
        clamped == IF nonneg >= total THEN total - 1 ELSE nonneg
        found == list_profiles(rows, server, 1, clamped)
    IN IF total = 0 THEN vc
       ELSE IF Len(found) = 0 THEN vc
       ELSE Put(vc, viewer_id,
                [server |-> server, offset |-> clamped, total |-> total,
                 owner_id |-> get_owner_id(found[1]),
                 profile_id |-> get_owner_id(found[1])])

\* button browse_server:<key>
process_browse_server(u, cb) ==
    /\ state[u] = None
    /\ StartsWith(cb, P_browse_server)
    /\ view_contexts' = send_profile_with_actions(view_contexts, profiles, u, SplitOnce(cb, ":")[2], 0)
    /\ Handled(u, "process_browse_server", cb)
    /\ UNCHANGED <<profiles, likes, clock, state, data, developer, blocked, tasks, returns>>

\* variant: the card of the cursor is rendered again
Advance_SameCard(vc, rows, u, server, offset, total) ==
    IF offset + 1 >= total
    THEN Pop(vc, u)
    ELSE send_profile_with_actions(vc, rows, u, server, offset)

\* variant: the end of the list compared with > for >=
Advance_OffByOne(vc, rows, u, server, offset, total) ==
    IF offset + 1 > total
    THEN Pop(vc, u)
    ELSE send_profile_with_actions(vc, rows, u, server, offset + 1)

\* next_offset = offset + 1; end of the list, or the next card
Advance(vc, rows, u, server, offset, total) ==
    IF offset + 1 >= total
    THEN Pop(vc, u)
    ELSE send_profile_with_actions(vc, rows, u, server, offset + 1)

\* variant: the owner is not compared with the viewer
LikeAllowed_Self(u, owner_id) == owner_id # NoOwner

\* the Like branch may go on to the like store: the owner is known and is
\* not the viewer
LikeAllowed(u, owner_id) == owner_id # NoOwner /\ owner_id # u

\* the Message branch may open the composition
MessageAllowed(u, owner_id) == owner_id # NoOwner /\ owner_id # u

\* await bot.send_message(owner_id, ...) returns; it raises for a user the
\* bot cannot reach
Notified(owner_id) == owner_id \notin blocked

\* variant: the exception of the notification leaves the handler
LikeContinues_Raises(inserted, notified) == ~inserted \/ notified

\* after add_like the handler comes to next_offset = offset + 1: when nothing
\* was inserted, when the owner was notified, and through the except branch
\* when the notification raised
LikeContinues(inserted, notified) == TRUE

Returned(viewer_id, owner_id, inserted) ==
    SetToBag({[viewer_id |-> viewer_id, owner_id |-> owner_id, inserted |-> inserted]})

\* the four reply-keyboard actions, each handled in one piece
handle_action_message(u, text) ==
    /\ state[u] = None
    /\ text \in ACTION_TEXTS
    /\ Handled(u, "handle_action_message", text)
    /\ UNCHANGED <<profiles, clock, developer, blocked, tasks>>
    /\ IF u \notin DOMAIN view_contexts
       THEN UNCHANGED <<likes, returns, state, data, view_contexts>>
       ELSE LET ctx == view_contexts[u]
            IN CASE text = BTN_LIKE ->
                    IF LikeAllowed(u, ctx.owner_id) /\ ~has_liked(likes, u, ctx.owner_id)
                    THEN /\ likes' = add_like(likes, profiles, u, ctx.owner_id)
                         /\ returns' = returns (+) Returned(u, ctx.owner_id,
                                           add_like_inserted(likes, profiles, u, ctx.owner_id))
                         /\ view_contexts' =
                               IF LikeContinues(add_like_inserted(likes, profiles, u, ctx.owner_id),
                                                Notified(ctx.owner_id))
                               THEN Advance(view_contexts, profiles, u,
                                            ctx.server, ctx.offset, ctx.total)
                               ELSE view_contexts
                         /\ UNCHANGED <<state, data>>
                    ELSE UNCHANGED <<likes, returns, state, data, view_contexts>>
                 [] text = BTN_DISLIKE ->
                    /\ view_contexts' = Advance(view_contexts, profiles, u,
                                                ctx.server, ctx.offset, ctx.total)
                    /\ UNCHANGED <<likes, returns, state, data>>
                 [] text = BTN_MESSAGE ->
                    IF MessageAllowed(u, ctx.owner_id)
                    THEN /\ SetData(u, Put(data[u], "message_target", ctx.owner_id))
                         /\ SetState(u, "sending_message")
                         /\ UNCHANGED <<likes, returns, view_contexts>>
                    ELSE UNCHANGED <<likes, returns, state, data, view_contexts>>
                 [] text = BTN_STOP ->
                    /\ view_contexts' = Pop(view_contexts, u)
                    /\ UNCHANGED <<likes, returns, state, data>>

\* variant: the end of the composition ends the browsing session too
handle_sending_message_EndsSession(u, text) ==
    /\ state[u] = "sending_message"
    /\ Finish(u)
    /\ view_contexts' = Pop(view_contexts, u)
    /\ Handled(u, "handle_sending_message", text)
    /\ UNCHANGED <<profiles, likes, clock, developer, blocked, tasks, returns>>

\* any text while composing a message: "-" cancels, anything else is
\* forwarded to the target (a failed delivery is caught); the dialog ends
handle_sending_message(u, text) ==
    /\ state[u] = "sending_message"
    /\ Finish(u)
    /\ Handled(u, "handle_sending_message", text)
    /\ UNCHANGED <<profiles, likes, clock, view_contexts, developer, blocked, tasks, returns>>

\* variant: an unset DEVELOPER_ID lets every sender through
IsDeveloper_Unset(u) == developer = {} \/ u \in developer

\* DEVELOPER_ID_INT is None or message.from_user.id != DEVELOPER_ID_INT
IsDeveloper(u) == u \in developer

\* /delete_profile <tg_id>
cmd_delete_profile(u, text) ==
    /\ state[u] = None
    /\ IsCommand(text, {CMD_delete_profile})
    /\ LET parts == Words(Strip(text))
           target == IF Len(parts) < 2 THEN [ok |-> FALSE, val |-> 0] ELSE PyInt(parts[2])
       IN IF IsDeveloper(u) /\ target.ok
          THEN /\ profiles' = delete_profile_rows(profiles, target.val)
               /\ likes' = delete_profile_likes(likes, target.val)
          ELSE UNCHANGED <<profiles, likes>>
    /\ Handled(u, "cmd_delete_profile", text)
    /\ UNCHANGED <<clock, state, data, view_contexts, developer, blocked, tasks, returns>>

\* button dev:delete:<tg_id>
dev_delete_profile_callback(u, cb) ==
    /\ state[u] = None
    /\ StartsWith(cb, P_dev_delete)
    /\ LET parts == Split(cb, ":")
           target == IF Len(parts) # 3 THEN [ok |-> FALSE, val |-> 0] ELSE PyInt(parts[3])
       IN IF IsDeveloper(u) /\ target.ok
          THEN /\ profiles' = delete_profile_rows(profiles, target.val)
               /\ likes' = delete_profile_likes(likes, target.val)
          ELSE UNCHANGED <<profiles, likes>>
    /\ Handled(u, "dev_delete_profile_callback", cb)
    /\ UNCHANGED <<clock, state, data, view_contexts, developer, blocked, tasks, returns>>

\* ---------------------------- the Like branch, one await at a time
\* aiogram handles the updates of one polling batch concurrently, so two Like
\* presses of one viewer may both be suspended inside handle_action_message.
\* A task is one such invocation with its local variables.

Task(u, ctx, pc) ==
    [user_id |-> u, server |-> ctx.server, offset |-> ctx.offset, total |-> ctx.total,
     owner_id |-> ctx.owner_id, pc |-> pc]

\* up to the first await: the cursor is read and the owner checks are made
like_begin(u, text) ==
    /\ state[u] = None
    /\ text = BTN_LIKE
    /\ BagCardinality(tasks) + BagCardinality(returns) < MaxAttempts
    /\ IF u \in DOMAIN view_contexts /\ LikeAllowed(u, view_contexts[u].owner_id)
       THEN tasks' = tasks (+) SetToBag({Task(u, view_contexts[u], "has_liked")})
       ELSE UNCHANGED tasks
    /\ Handled(u, "handle_action_message", text)
    /\ UNCHANGED <<profiles, likes, clock, state, data, view_contexts, developer, blocked, returns>>

\* already = await db.has_liked(user_id, owner_id)
like_has_liked(t) ==
    /\ BagIn(t, tasks)
    /\ t.pc = "has_liked"
    /\ tasks' = IF has_liked(likes, t.user_id, t.owner_id)
                THEN tasks (-) SetToBag({t})
                ELSE (tasks (-) SetToBag({t})) (+) SetToBag({[t EXCEPT !.pc = "add_like"]})
    /\ UNCHANGED <<profiles, likes, clock, state, data, view_contexts, developer, blocked, returns, last>>

\* inserted = await db.add_like(user_id, owner_id)
like_add_like(t) ==
    /\ BagIn(t, tasks)
    /\ t.pc = "add_like"
    /\ likes' = add_like(likes, profiles, t.user_id, t.owner_id)
    /\ returns' = returns (+) Returned(t.user_id, t.owner_id,
                                       add_like_inserted(likes, profiles, t.user_id, t.owner_id))
    /\ tasks' = (tasks (-) SetToBag({t})) (+) SetToBag({[t EXCEPT !.pc = "advance"]})
    /\ UNCHANGED <<profiles, clock, state, data, view_contexts, developer, blocked, last>>

\* the notification and the move to the next card
like_advance(t) ==
    /\ BagIn(t, tasks)
    /\ t.pc = "advance"
    /\ view_contexts' = Advance(view_contexts, profiles, t.user_id, t.server, t.offset, t.total)
    /\ tasks' = tasks (-) SetToBag({t})
    /\ UNCHANGED <<profiles, likes, clock, state, data, developer, blocked, returns, last>>

\* ------------------------------------------------------------ the inputs

T_start == <<"/", "s", "t", "a", "r", "t">>
T_edit == <<"/", "e", "d", "i", "t">>
T_cancel == <<"/", "c", "a", "n", "c", "e", "l">>
T_Aether == <<"A", "e", "t", "h", "e", "r">>
T_hi == <<"h", "i">>

ServerInputs == {P_server \o SERVERS[i] : i \in 1..NumServers}
LangInputs == {P_lang \o LANG_BUTTONS[i] : i \in 1..NumLangs} \cup {P_lang \o S_DONE}
ConfirmInputs == {P_confirm \o S_yes, P_confirm \o S_no}
CommandInputs == {T_start, T_edit, T_cancel}

\* rank inputs: skip, out of range (both sides), not a number, accepted ones
\* (plain, signed, padded, with an underscore)
RankInputs == {DASH, <<"6", "5">>, <<"5", "5">>, <<"0">>, <<"x">>, <<"6", "1">>,
               <<"-", "5">>, <<"+", "6", "0">>, <<" ", "1", " ">>, <<"5", "_", "5">>}

\* the session and the stores when the process starts with an empty database
InitEmpty ==
    /\ profiles = EmptyDict
    /\ likes = EmptyBag
    /\ clock = 1
    /\ state = [u \in Users |-> None]
    /\ data = [u \in Users |-> EmptyDict]
    /\ view_contexts = EmptyDict
    /\ developer = {}
    /\ blocked = {}
    /\ tasks = EmptyBag
    /\ returns = EmptyBag
    /\ last = NoEvent

\* The dialog specifications follow the dialogs of one user: the FSM state
\* and data are keyed by the sender and no dialog handler reads another
\* user's session or profile.
FormUsers == {1}

\* every dialog handler, with the texts typed at each step drawn from the
\* given sets
FormNext(nicks, uids, ranks, plays, bios) ==
    \E u \in FormUsers :
        \/ \E t \in CommandInputs : cmd_start(u, t)
        \/ \E t \in CommandInputs : cmd_edit(u, t)
        \/ \E t \in CommandInputs : cmd_cancel(u, t)
        \/ \E t \in CommandInputs : unhandled_message(u, t)
        \/ profile_edit_callback(u, CB_profile_edit)
        \/ profile_delete_confirm(u, CB_profile_delete_confirm)
        \/ \E cb \in ServerInputs : process_server_with_state(u, cb)
        \/ \E t \in nicks : process_nickname(u, t)
        \/ \E t \in uids : process_uid(u, t)
        \/ \E t \in ranks : process_ar(u, t)
        \/ \E cb \in LangInputs : process_lang_toggle(u, cb)
        \/ \E t \in CommandInputs : process_languages_text_blocked(u, t)
        \/ \E t \in plays : process_playtime(u, t)
        \/ \E t \in bios : process_bio(u, t)
        \/ \E cb \in ConfirmInputs : process_confirm(u, cb)

\* play-time inputs: skip, offsets plain, signed, prefixed and spaced, the
\* two ends of the range, one past each end, and a text that is no number
PlaytimeInputs == {DASH, <<"3">>, <<"-", "3">>, <<"+", "0">>, S_MSK,
                   <<"m", "s", "k", " ", "-", "1", "2">>, <<"1", "4">>, <<"1", "5">>,
                   <<"-", "1", "3">>, <<"M", "S", "K", "+", "1", "5">>,
                   <<"l", "a", "t", "e">>}

NextRank == FormNext({T_Aether}, {DASH}, RankInputs, {DASH}, {T_hi})

\* the dialog with the rank step's inputs varied
SpecRank == InitEmpty /\ [][NextRank]_vars

\* ------------------------------------------------- browsing specifications

T_delete_profile == <<"/">> \o CMD_delete_profile
BrowseServers == {SERVERS[i] : i \in 1..NumServers}
\* the specifications that are not about the choice of server use one
OneServer == {SERVERS[1]}
BrowseInputs(servers) == {P_browse_server \o k : k \in servers}
DeleteCommandInputs == {T_delete_profile \o <<" ">> \o PyStr(u) : u \in Users} \cup {T_delete_profile}
DeleteTokenInputs == {P_dev_delete \o PyStr(u) : u \in Users}

\* the row a create dialog answered Aether, "-", "-", Done, "-", hi stores
InitialRow(u, server, created_at) ==
    ProfileRow(u, [server |-> server, nickname |-> T_Aether, uid |-> EmptyStr,
                   adventure_rank |-> EmptyStr, playtime |-> EmptyStr, bio |-> T_hi],
               created_at)

\* profiles.db outlives the process: it starts with the profiles earlier runs
\* stored, every one with its own creation time; MemoryStorage and
\* view_contexts start empty
InitStored(servers, developers) ==
    /\ \E owners \in SUBSET Users :
        \E srv \in [owners -> servers] :
            \E at \in {f \in [owners -> 1..Cardinality(owners)] :
                          \A a, b \in owners : a # b => f[a] # f[b]} :
                /\ profiles = [u \in owners |-> InitialRow(u, srv[u], at[u])]
                /\ clock = Cardinality(owners) + 1
    /\ likes = EmptyBag
    /\ state = [u \in Users |-> None]
    /\ data = [u \in Users |-> EmptyDict]
    /\ view_contexts = EmptyDict
    /\ developer \in developers
    /\ blocked = {}
    /\ tasks = EmptyBag
    /\ returns = EmptyBag
    /\ last = NoEvent

\* The browsing specifications follow one viewer: a cursor is read and
\* written by its viewer's events only.  Every user may delete profiles.
Viewers == {1}

NextBrowse ==
    \/ \E u \in Viewers :
        \/ \E cb \in BrowseInputs(BrowseServers) : process_browse_server(u, cb)
        \/ \E t \in ACTION_TEXTS : handle_action_message(u, t)
        \/ \E t \in {DASH, T_hi} : handle_sending_message(u, t)
    \/ \E u \in Users : profile_delete_confirm(u, CB_profile_delete_confirm)

InitBrowse == InitStored(BrowseServers, {{}})

\* one viewer browsing while owners delete their profiles
SpecBrowse == InitBrowse /\ [][NextBrowse]_vars

NextDelete ==
    \/ \E u \in Viewers :
        \/ \E cb \in BrowseInputs(OneServer) : process_browse_server(u, cb)
        \/ handle_action_message(u, BTN_LIKE)
    \/ \E u \in Users :
        \/ profile_delete_confirm(u, CB_profile_delete_confirm)
        \/ \E t \in DeleteCommandInputs : cmd_delete_profile(u, t)
        \/ \E cb \in DeleteTokenInputs : dev_delete_profile_callback(u, cb)

\* DEVELOPER_ID is unset, or names any one user
InitDelete == InitStored(OneServer, {{}} \cup {{u} : u \in Users})

\* profiles deleted by their owners and by the developer, with likes stored
SpecDelete == InitDelete /\ [][NextDelete]_vars

NextLike ==
    \/ \E u \in Viewers :
        \/ \E cb \in BrowseInputs(OneServer) : process_browse_server(u, cb)
        \/ like_begin(u, BTN_LIKE)
        \/ \E t \in {BTN_DISLIKE, BTN_STOP} : handle_action_message(u, t)
    \/ \E t \in DOMAIN tasks : like_has_liked(t)
    \/ \E t \in DOMAIN tasks : like_add_like(t)
    \/ \E t \in DOMAIN tasks : like_advance(t)
    \/ \E u \in Users : profile_delete_confirm(u, CB_profile_delete_confirm)

\* Like presses of one viewer handled concurrently
InitLike == InitStored(OneServer, {{}})

SpecLike == InitLike /\ [][NextLike]_vars

NextPlaytime == FormNext({T_Aether}, {DASH}, {DASH}, PlaytimeInputs, {T_hi})

\* the dialog with the play-time step's inputs varied
SpecPlaytime == InitEmpty /\ [][NextPlaytime]_vars

NextCancel == FormNext({T_Aether, T_cancel}, {DASH, T_cancel}, {DASH, T_cancel},
                       {DASH, T_cancel}, {T_hi, T_cancel})

\* the dialog with /cancel typed at every step
SpecCancel == InitEmpty /\ [][NextCancel]_vars

\* ------------------------------------------------------------ properties
\* Every property below is read on `last`, the event handled last, with
\* every reply to the sender of an event taken as delivered.

\* a session entry as a sequence: <<value>> when the key is set, <<>> when not
Entry(d, k) == IF k \in DOMAIN d THEN <<d[k]>> ELSE <<>>

\* text is neither the skip mark nor an integer of 1..60
InvalidRankText(text) ==
    LET txt == Strip(text)
    IN /\ txt # DASH
       /\ \/ ~PyInt(txt).ok
          \/ PyInt(txt).val < 1
          \/ PyInt(txt).val > 60

\* C1: an invalid rank input (not "-", and not an integer of 1..60) leaves the
\* dialog at the rank step with the session's rank as it was, also when the
\* input before it was invalid too.
C1_InvalidRankStays ==
    (last.handler = "process_ar" /\ InvalidRankText(last.text)) =>
        /\ last.state = "adventure_rank"
        /\ state[last.user] = "adventure_rank"
        /\ Entry(data[last.user], "adventure_rank") = Entry(last.data, "adventure_rank")

\* the same invalid rank was sent twice in a row while editing a profile whose
\* rank is 55, and 55 is still the session's rank
C1_Witness ==
    /\ last.handler = "process_ar"
    /\ InvalidRankText(last.text)
    /\ last.repeat
    /\ Entry(data[last.user], "adventure_rank") = << <<"5", "5">> >>

\* the offset process_playtime reads from a message text
OffsetOf(text) == ParseOffset(Remove(Upper(Strip(text)), " "))

\* "MSK+N" for N >= 0, "MSK-|N|" for N < 0
ExpectedPlaytime(n) ==
    S_MSK \o (IF n >= 0 THEN <<"+">> ELSE <<"-">>) \o NatStr(IF n >= 0 THEN n ELSE 0 - n)

\* C2: a play-time input that reads as an integer N, with or without the MSK
\* prefix, stores exactly "MSK+N" / "MSK-|N|" and moves on to the bio step when
\* -12 <= N <= 14, and otherwise leaves the stored play time and the step as
\* they were.
C2_PlaytimeOffset ==
    (last.handler = "process_playtime" /\ OffsetOf(last.text).ok) =>
        LET n == OffsetOf(last.text).val
            u == last.user
        IN /\ last.state = "playtime"
           /\ IF (0 - 12) <= n /\ n <= 14
              THEN /\ Entry(data[u], "playtime") = <<ExpectedPlaytime(n)>>
                   /\ state[u] = "bio"
              ELSE /\ Entry(data[u], "playtime") = Entry(last.data, "playtime")
                   /\ state[u] = "playtime"

\* the input "+0" was stored as "MSK+0" over an earlier play time
C2_Witness ==
    /\ last.handler = "process_playtime"
    /\ OffsetOf(last.text).ok
    /\ OffsetOf(last.text).val = 0
    /\ Entry(last.data, "playtime") \notin {<<>>, <<EmptyStr>>, <<ExpectedPlaytime(0)>>}
    /\ Entry(data[last.user], "playtime") = <<ExpectedPlaytime(0)>>
    /\ state[last.user] = "bio"

\* an out-of-range offset was refused while a play time was stored
C2_WitnessRefused ==
    /\ last.handler = "process_playtime"
    /\ OffsetOf(last.text).ok
    /\ OffsetOf(last.text).val > 14
    /\ Entry(data[last.user], "playtime") \notin {<<>>, <<EmptyStr>>}
    /\ state[last.user] = "playtime"

\* the event is a press of a language button
IsLangToggle(e) ==
    /\ e.handler = "process_lang_toggle"
    /\ StartsWith(e.text, P_lang)
    /\ SplitOnce(e.text, ":")[2] \in LangCodes

\* C3: two presses of the same language button, one right after the other,
\* leave the working set as it was before the first, and the dialog at the
\* languages step.
C3_DoubleToggle ==
    [][(/\ IsLangToggle(last)
        /\ IsLangToggle(last')
        /\ last'.user = last.user
        /\ last'.text = last.text)
       => /\ LangSet(Get(data'[last.user], "languages", EmptyStr))
               = LangSet(Get(last.data, "languages", EmptyStr))
          /\ last.state = "languages"
          /\ state[last.user] = "languages"
          /\ state'[last.user] = "languages"]_vars

\* a language button was pressed twice in a row on a set that holds another
\* code, and the set holds just that other code again
C3_Witness ==
    /\ IsLangToggle(last)
    /\ last.repeat
    /\ LangSet(Get(data[last.user], "languages", EmptyStr)) # {}
    /\ SplitOnce(last.text, ":")[2] \notin LangSet(Get(data[last.user], "languages", EmptyStr))
    /\ state[last.user] = "languages"

ProfileFields == {"server", "nickname", "uid", "adventure_rank", "languages",
                  "playtime", "bio", "platforms", "playstyle"}

\* C10: after the confirm step is accepted the stored profile of the user
\* holds the session's value of every field ("" where the session has none,
\* as for platforms and playstyle), the dialog is over and the session is
\* empty; the stored rank is "" or an integer of 1..60.
C10_ConfirmStores ==
    (last.handler = "process_confirm" /\ last.text = P_confirm \o S_yes) =>
        LET u == last.user
        IN /\ last.state = "confirm"
           /\ u \in DOMAIN profiles
           /\ \A f \in ProfileFields : profiles[u][f] = Get(last.data, f, EmptyStr)
           /\ profiles[u].tg_id = u
           /\ state[u] = None
           /\ data[u] = EmptyDict
           /\ profiles[u].adventure_rank \in {EmptyStr} \cup {PyStr(n) : n \in 1..60}

\* a profile was stored with rank 55, without platforms in the session
C10_Witness ==
    /\ last.handler = "process_confirm"
    /\ last.text = P_confirm \o S_yes
    /\ last.user \in DOMAIN profiles
    /\ profiles[last.user].adventure_rank = <<"5", "5">>
    /\ profiles[last.user].nickname = T_Aether
    /\ "platforms" \notin DOMAIN last.data

\* how many add_like calls for (viewer, owner) returned `inserted`
ReturnCount(viewer_id, owner_id, inserted) ==
    CopiesIn([viewer_id |-> viewer_id, owner_id |-> owner_id, inserted |-> inserted], returns)

\* C4: over all the add_like calls made for one (viewer, owner), whatever the
\* interleaving of the viewer's Like presses, exactly one returned true, and
\* the like store holds the edge once.
C4_OneTruePerPair ==
    \A v \in Users : \A o \in Users :
        LET yes == ReturnCount(v, o, TRUE)
            no == ReturnCount(v, o, FALSE)
            rows == CopiesIn(LikeRow(v, o), likes)
        IN /\ yes <= 1
           /\ rows <= 1
           /\ rows = yes
           /\ (yes + no >= 1) => yes = 1

\* two Like presses both got past has_liked: one add_like returned true, the
\* other false, and the edge is stored once
C4_Witness ==
    \E v \in Users : \E o \in Users :
        /\ ReturnCount(v, o, TRUE) = 1
        /\ ReturnCount(v, o, FALSE) = 1
        /\ CopiesIn(LikeRow(v, o), likes) = 1

\* the sender presses Like or Message, in this step, on a card of their own
OwnCardStep(u) ==
    /\ last'.handler = "handle_action_message"
    /\ last'.user = u
    /\ last'.text \in {BTN_LIKE, BTN_MESSAGE}
    /\ state[u] = None
    /\ u \in DOMAIN view_contexts
    /\ view_contexts[u].owner_id = u

\* C5: the like store never holds an edge from a user to themselves and no
\* composition is addressed to its author; Like and Message on the viewer's
\* own card leave the cursor, the like store and the form state as they were.
C5_NoSelfAction ==
    /\ [](/\ \A r \in BagToSet(likes) : r.owner_id # r.viewer_id
          /\ \A u \in Users :
                "message_target" \in DOMAIN data[u] => data[u].message_target # u)
    /\ [][\A u \in Users :
            OwnCardStep(u) => UNCHANGED <<view_contexts, likes, state, data>>]_vars

\* Like was pressed on the viewer's own card
C5_Witness ==
    /\ last.handler = "handle_action_message"
    /\ last.text = BTN_LIKE
    /\ last.ctx # <<>>
    /\ last.ctx[1].owner_id = last.user
    /\ CtxOf(last.user) = last.ctx
    /\ likes = EmptyBag

\* in this step the sender presses Dislike, or a Like that gets past the
\* owner checks and the already-liked check, on the last card of the list
EndOfListStep(u) ==
    /\ last'.handler = "handle_action_message"
    /\ last'.user = u
    /\ state[u] = None
    /\ u \in DOMAIN view_contexts
    /\ view_contexts[u].offset + 1 >= view_contexts[u].total
    /\ \/ last'.text = BTN_DISLIKE
       \/ /\ last'.text = BTN_LIKE
          /\ view_contexts[u].owner_id \notin {NoOwner, u}
          /\ ~BagIn(LikeRow(u, view_contexts[u].owner_id), likes)

\* C6: Dislike, and a Like that gets past the already-liked check, on a
\* cursor with offset + 1 >= total remove the cursor instead of wrapping the
\* offset to 0; no cursor has a negative offset.
C6_EndOfList ==
    /\ [](\A u \in DOMAIN view_contexts : view_contexts[u].offset >= 0)
    /\ [][\A u \in Users : EndOfListStep(u) => u \notin DOMAIN view_contexts']_vars

\* a Like on the second of two cards stored the edge and removed the cursor
C6_Witness ==
    /\ last.handler = "handle_action_message"
    /\ last.text = BTN_LIKE
    /\ last.ctx # <<>>
    /\ last.ctx[1].offset = 1
    /\ last.ctx[1].total = 2
    /\ BagIn(LikeRow(last.user, last.ctx[1].owner_id), likes)
    /\ last.user \notin DOMAIN view_contexts

\* the profile the event deletes: <<tg_id>>, or <<>> when it deletes none
DeleteTarget(e) ==
    IF e.handler = "profile_delete_confirm" THEN <<e.user>>
    ELSE IF e.handler = "cmd_delete_profile" /\ e.user \in developer
    THEN LET parts == Words(Strip(e.text))
         IN IF Len(parts) >= 2 /\ PyInt(parts[2]).ok THEN <<PyInt(parts[2]).val>> ELSE <<>>
    ELSE IF e.handler = "dev_delete_profile_callback" /\ e.user \in developer
    THEN LET parts == Split(e.text, ":")
         IN IF Len(parts) = 3 /\ PyInt(parts[3]).ok THEN <<PyInt(parts[3]).val>> ELSE <<>>
    ELSE <<>>

\* C7: after a profile is deleted, by its owner or by the developer, the like
\* store holds no edge whose owner is that profile, and its like count is 0.
C7_DeleteRemovesLikes ==
    \A x \in Users :
        DeleteTarget(last) = <<x>> =>
            /\ x \notin DOMAIN profiles
            /\ \A r \in BagToSet(likes) : r.owner_id # x
            /\ get_likes_count(likes, x) = 0

\* C8: /cancel sent in any dialog state ends the dialog, empties the session
\* and writes no profile.
C8_CancelDiscards ==
    [][\A u \in Users :
        (/\ last'.user = u
         /\ IsCommand(last'.text, {CMD_cancel})
         /\ state[u] \in FormStates)
        => /\ state'[u] = None
           /\ data'[u] = EmptyDict
           /\ profiles' = profiles]_vars

\* C9: choosing a server that has no profile creates no cursor: the viewer
\* has no cursor afterwards, or the one they had before.
C9_EmptyServerNoCursor ==
    (/\ last.handler = "process_browse_server"
     /\ count_profiles(profiles, SplitOnce(last.text, ":")[2]) = 0)
    => CtxOf(last.user) \in {<<>>, last.ctx}

\* a server without profiles was chosen, on a store that has profiles, by a
\* viewer without cursor
C9_Witness ==
    /\ last.handler = "process_browse_server"
    /\ count_profiles(profiles, SplitOnce(last.text, ":")[2]) = 0
    /\ DOMAIN profiles # {}
    /\ last.ctx = <<>>
    /\ last.user \notin DOMAIN view_contexts

\* the states of the profile dialog in the order of class Form
FormOrder == <<"choosing_server", "nickname", "uid", "adventure_rank", "languages",
               "playtime", "bio", "confirm">>

\* the states one event may lead to from the i-th state of the dialog
AfterStep(i) ==
    {FormOrder[i], None} \cup (IF i < Len(FormOrder) THEN {FormOrder[i + 1]} ELSE {})

\* C11: one event keeps a user in their state of the profile dialog, moves
\* them to the next state of the order, or takes them out of the dialog; the
\* dialog is entered at ChoosingServer, or at Nickname by the edit entry.
C11_FormOrder ==
    [][\A u \in Users :
        /\ \A i \in 1..Len(FormOrder) :
              state[u] = FormOrder[i] => state'[u] \in AfterStep(i)
        /\ (state[u] = None /\ \E i \in 1..Len(FormOrder) : state'[u] = FormOrder[i])
              => \/ state'[u] = "choosing_server"
                 \/ /\ state'[u] = "nickname"
                    /\ last'.user = u
                    /\ last'.handler \in {"cmd_edit", "profile_edit_callback"}]_vars

\* an edit dialog, entered at Nickname, has come from Bio to Confirm
C11_Witness ==
    /\ last.handler = "process_bio"
    /\ last.state = "bio"
    /\ state[last.user] = "confirm"
    /\ Editing(data[last.user])

\* in this step the sender presses Like on a card whose owner they have liked
LikedCardStep(u) ==
    /\ last'.handler = "handle_action_message"
    /\ last'.user = u
    /\ last'.text = BTN_LIKE
    /\ state[u] = None
    /\ u \in DOMAIN view_contexts
    /\ BagIn(LikeRow(u, view_contexts[u].owner_id), likes)

\* C12: Like on a card whose (viewer, owner) edge is in the like store leaves
\* the cursor and the like store as they were: the viewer stays on the card.
C12_LikedCardStays ==
    [][\A u \in Users : LikedCardStep(u) => UNCHANGED <<view_contexts, likes>>]_vars

\* Like was pressed on a card of another user that the viewer had liked, and
\* the cursor is the one from before
C12_Witness ==
    /\ last.handler = "handle_action_message"
    /\ last.text = BTN_LIKE
    /\ last.ctx # <<>>
    /\ last.ctx[1].owner_id # last.user
    /\ BagIn(LikeRow(last.user, last.ctx[1].owner_id), likes)
    /\ CtxOf(last.user) = last.ctx

\* in this step the sender presses Dislike on a cursor
DislikeStep(u) ==
    /\ last'.handler = "handle_action_message"
    /\ last'.user = u
    /\ last'.text = BTN_DISLIKE
    /\ state[u] = None
    /\ u \in DOMAIN view_contexts

\* C13, as stated: Dislike on a cursor with offset + 1 < total moves the
\* cursor to offset + 1 on the same server; Dislike changes neither store.
C13_DislikeAdvances ==
    [][\A u \in Users :
        DislikeStep(u) =>
            /\ UNCHANGED <<profiles, likes>>
            /\ view_contexts[u].offset + 1 < view_contexts[u].total
                  => /\ u \in DOMAIN view_contexts'
                     /\ view_contexts'[u].server = view_contexts[u].server
                     /\ view_contexts'[u].offset = view_contexts[u].offset + 1]_vars

\* C13, amended: Dislike on a cursor with offset + 1 < total renders offset + 1
\* clamped to the number n of profiles the server holds now: for n >= 1 the
\* cursor is on the same server at min(offset + 1, n - 1) with total n, for
\* n = 0 it is left as it was; Dislike changes neither store.
C13_DislikeClamped ==
    [][\A u \in Users :
        DislikeStep(u) =>
            /\ UNCHANGED <<profiles, likes>>
            /\ view_contexts[u].offset + 1 < view_contexts[u].total
                  => LET n == Cardinality({t \in DOMAIN profiles :
                                  profiles[t].server = view_contexts[u].server})
                         next == view_contexts[u].offset + 1
                     IN /\ u \in DOMAIN view_contexts'
                        /\ IF n = 0
                           THEN view_contexts'[u] = view_contexts[u]
                           ELSE /\ view_contexts'[u].server = view_contexts[u].server
                                /\ view_contexts'[u].total = n
                                /\ view_contexts'[u].offset
                                      = (IF next <= n - 1 THEN next ELSE n - 1)]_vars

\* Dislike on the first of two cards, after one of the two profiles was
\* deleted: the cursor is at offset 0 of 1
C13_Witness ==
    /\ last.handler = "handle_action_message"
    /\ last.text = BTN_DISLIKE
    /\ last.ctx # <<>>
    /\ last.ctx[1].offset + 1 < last.ctx[1].total
    /\ last.user \in DOMAIN view_contexts
    /\ view_contexts[last.user].offset = last.ctx[1].offset
    /\ view_contexts[last.user].total = 1

\* Dislike on the first of two cards moved the cursor to the second
C13_WitnessNext ==
    /\ last.handler = "handle_action_message"
    /\ last.text = BTN_DISLIKE
    /\ last.ctx # <<>>
    /\ last.ctx[1].offset + 1 < last.ctx[1].total
    /\ last.user \in DOMAIN view_contexts
    /\ view_contexts[last.user].offset = last.ctx[1].offset + 1

\* C14: a composition is entered from a cursor, and from the Message press
\* that opens it to the text or the "-" that ends it the viewer's cursor is
\* there and stays as it is; the end of the composition leaves the viewer in
\* no dialog state.
C14_CompositionKeepsCursor ==
    [][\A u \in Users :
        /\ (state[u] = "sending_message" \/ state'[u] = "sending_message")
              => /\ u \in DOMAIN view_contexts
                 /\ u \in DOMAIN view_contexts'
                 /\ view_contexts'[u] = view_contexts[u]
        /\ (state[u] = "sending_message" /\ last'.user = u)
              => /\ last'.handler = "handle_sending_message"
                 /\ state'[u] = None]_vars

\* a text was sent from the composition and the cursor is the one from before
C14_Witness ==
    /\ last.handler = "handle_sending_message"
    /\ last.text = T_hi
    /\ last.state = "sending_message"
    /\ last.ctx # <<>>
    /\ CtxOf(last.user) = last.ctx
    /\ state[last.user] = None

\* the composition was left by "-"
C14_WitnessCancel ==
    /\ last.handler = "handle_sending_message"
    /\ last.text = DASH
    /\ last.ctx # <<>>
    /\ CtxOf(last.user) = last.ctx
    /\ state[last.user] = None

\* in this step the sender presses one of the four action buttons
ActionStep(u) ==
    /\ last'.handler = "handle_action_message"
    /\ last'.user = u
    /\ last'.text \in ACTION_TEXTS
    /\ state[u] = None

\* C15: Stop removes the viewer's cursor, whatever its offset and total, and
\* changes neither store; without a cursor each of the four actions changes
\* nothing, and only the choice of a server gives the viewer a cursor again.
C15_StopEndsSession ==
    [][\A u \in Users :
        /\ (ActionStep(u) /\ last'.text = BTN_STOP /\ u \in DOMAIN view_contexts)
              => /\ u \notin DOMAIN view_contexts'
                 /\ UNCHANGED <<profiles, likes>>
        /\ (ActionStep(u) /\ u \notin DOMAIN view_contexts)
              => UNCHANGED <<view_contexts, profiles, likes, state, data>>
        /\ (u \notin DOMAIN view_contexts /\ u \in DOMAIN view_contexts')
              => /\ last'.user = u
                 /\ last'.handler = "process_browse_server"]_vars

\* Stop was pressed on the first of two cards and the cursor is gone
C15_Witness ==
    /\ last.handler = "handle_action_message"
    /\ last.text = BTN_STOP
    /\ last.ctx # <<>>
    /\ last.ctx[1].offset = 0
    /\ last.ctx[1].total = 2
    /\ last.user \notin DOMAIN view_contexts

\* Like was pressed twice in a row by a viewer without cursor
C15_WitnessAfter ==
    /\ last.handler = "handle_action_message"
    /\ last.text = BTN_LIKE
    /\ last.repeat
    /\ last.ctx = <<>>
    /\ last.user \notin DOMAIN view_contexts
    /\ DOMAIN profiles # {}

\* this step handles /delete_profile or a dev:delete: button
ForcedDeleteStep ==
    last'.handler \in {"cmd_delete_profile", "dev_delete_profile_callback"}

\* C16: /delete_profile and dev:delete: from a sender who is not the
\* configured developer, or with no developer configured, change neither
\* store; a profile leaves the store only by its owner's delete_confirm or by
\* a forced delete from the developer.
C16_OperatorOnlyDelete ==
    [][/\ (ForcedDeleteStep /\ last'.user \notin developer)
             => UNCHANGED <<profiles, likes>>
       /\ \A x \in (DOMAIN profiles) \ (DOMAIN profiles') :
             \/ last'.handler = "profile_delete_confirm" /\ last'.user = x
             \/ ForcedDeleteStep /\ last'.user \in developer]_vars

\* /delete_profile <id> for a stored profile came from a user who is not the
\* configured developer, and the profile is still stored
C16_Witness ==
    /\ last.handler = "cmd_delete_profile"
    /\ developer # {}
    /\ last.user \notin developer
    /\ Len(Words(last.text)) = 2
    /\ PyInt(Words(last.text)[2]).ok
    /\ PyInt(Words(last.text)[2]).val \in DOMAIN profiles
    /\ PyInt(Words(last.text)[2]).val # last.user

\* C17: a text message at the languages step leaves the step and the session
\* (the working language set with it) as they were; the dialog leaves the
\* languages step only by the Done button, and then for the play-time step.
C17_LanguagesTextBlocked ==
    [][\A u \in Users :
        /\ (/\ state[u] = "languages"
            /\ last'.user = u
            /\ last'.handler = "process_languages_text_blocked")
              => /\ state'[u] = "languages"
                 /\ data'[u] = data[u]
        /\ (state[u] = "languages" /\ state'[u] # "languages")
              => /\ state'[u] = "playtime"
                 /\ last'.user = u
                 /\ last'.handler = "process_lang_toggle"
                 /\ last'.text = P_lang \o S_DONE]_vars

\* a text arrived at the languages step while a language was selected
C17_Witness ==
    /\ last.handler = "process_languages_text_blocked"
    /\ last.state = "languages"
    /\ state[last.user] = "languages"
    /\ LangSet(Get(data[last.user], "languages", EmptyStr)) # {}

\* one server, no language chosen, and "-" or one other answer at each text step
NextDash ==
    \E u \in FormUsers :
        \/ cmd_start(u, T_start)
        \/ cmd_edit(u, T_edit)
        \/ process_server_with_state(u, P_server \o SERVERS[1])
        \/ \E t \in {T_Aether, DASH} : process_nickname(u, t)
        \/ \E t \in {<<"7">>, DASH} : process_uid(u, t)
        \/ \E t \in {<<"5", "5">>, DASH} : process_ar(u, t)
        \/ process_lang_toggle(u, P_lang \o S_DONE)
        \/ \E t \in {<<"3">>, DASH} : process_playtime(u, t)
        \/ \E t \in {T_hi, DASH} : process_bio(u, t)
        \/ \E cb \in ConfirmInputs : process_confirm(u, cb)

\* the dialog with "-" and one other answer at every text step
SpecDash == InitEmpty /\ [][NextDash]_vars

\* the text steps of the dialog: the session key each one fills
StepField(handler) ==
    CASE handler = "process_nickname" -> "nickname"
      [] handler = "process_uid" -> "uid"
      [] handler = "process_ar" -> "adventure_rank"
      [] handler = "process_playtime" -> "playtime"
      [] handler = "process_bio" -> "bio"

\* and the state each one hands over to
StepNext(handler) ==
    CASE handler = "process_nickname" -> "uid"
      [] handler = "process_uid" -> "adventure_rank"
      [] handler = "process_ar" -> "languages"
      [] handler = "process_playtime" -> "bio"
      [] handler = "process_bio" -> "confirm"

TextSteps == {"process_nickname", "process_uid", "process_ar", "process_playtime",
              "process_bio"}

\* C18: "-" at a text step moves the dialog to the next state; while editing
\* it leaves the step's field as it was loaded from the stored profile, and
\* in a new profile's dialog it stores "" at the UID, rank and play-time steps.
C18_DashKeepsOrClears ==
    (last.handler \in TextSteps /\ Strip(last.text) = DASH) =>
        LET u == last.user
            f == StepField(last.handler)
        IN /\ state[u] = StepNext(last.handler)
           /\ IF Editing(last.data)
              THEN /\ Entry(data[u], f) = Entry(last.data, f)
                   /\ u \in DOMAIN profiles
                   /\ Entry(data[u], f) = <<profiles[u][f]>>
              ELSE last.handler \in {"process_uid", "process_ar", "process_playtime"}
                      => Entry(data[u], f) = <<EmptyStr>>

\* "-" at the rank step of an edit dialog left the stored rank 55 in the
\* session
C18_Witness ==
    /\ last.handler = "process_ar"
    /\ Strip(last.text) = DASH
    /\ Editing(last.data)
    /\ Entry(data[last.user], "adventure_rank") = << <<"5", "5">> >>
    /\ state[last.user] = "languages"

\* "-" at the play-time step of a new profile's dialog stored ""
C18_WitnessCreate ==
    /\ last.handler = "process_playtime"
    /\ Strip(last.text) = DASH
    /\ ~Editing(last.data)
    /\ Entry(data[last.user], "playtime") = <<EmptyStr>>
    /\ state[last.user] = "bio"

\* C19: "-" at the bio step of a new profile's dialog stores "" as the bio,
\* not the text "-", and moves the dialog to the confirm step.
C19_BioDashClears ==
    (last.handler = "process_bio" /\ Strip(last.text) = DASH /\ ~Editing(last.data)) =>
        /\ Entry(data[last.user], "bio") = <<EmptyStr>>
        /\ state[last.user] = "confirm"

\* button data that no keyboard of the bot carries
T_server_Mars == P_server \o <<"M", "a", "r", "s">>
T_lang_XX == P_lang \o <<"X", "X">>
T_confirm_maybe == P_confirm \o <<"m", "a", "y", "b", "e">>
T_dev_delete_x == P_dev_delete \o <<"x">>
T_dev_delete_two == P_dev_delete \o <<"1", ":", "2">>

NextTokens ==
    \E u \in FormUsers :
        \/ cmd_start(u, T_start)
        \/ cmd_edit(u, T_edit)
        \/ \E cb \in ServerInputs \cup {T_server_Mars} : process_server_with_state(u, cb)
        \/ process_nickname(u, T_Aether)
        \/ process_uid(u, DASH)
        \/ process_ar(u, DASH)
        \/ \E cb \in LangInputs \cup {T_lang_XX} : process_lang_toggle(u, cb)
        \/ process_playtime(u, DASH)
        \/ process_bio(u, T_hi)
        \/ \E cb \in ConfirmInputs \cup {T_confirm_maybe} : process_confirm(u, cb)
        \/ \E cb \in DeleteTokenInputs \cup {T_dev_delete_x, T_dev_delete_two} :
              dev_delete_profile_callback(u, cb)

InitTokens == InitStored(OneServer, {{u} : u \in FormUsers})

\* the dialog of the developer, with button data outside the keyboards
SpecTokens == InitTokens /\ [][NextTokens]_vars

\* cb is in one of the namespaces of the callback handlers
InNamespace(cb) ==
    \E p \in {P_server, P_lang, P_confirm, P_dev_delete} : StartsWith(cb, p)

\* cb is data one of the bot's keyboards carries
Recognised(cb) ==
    \/ cb \in {P_server \o k : k \in ServerKeys}
    \/ cb \in {P_lang \o c : c \in LangCodes \cup {S_DONE}}
    \/ cb \in {P_confirm \o S_yes, P_confirm \o S_no}
    \/ /\ StartsWith(cb, P_dev_delete)
       /\ Len(Split(cb, ":")) = 3
       /\ PyInt(Split(cb, ":")[3]).ok

\* C20: a button press whose data is in a known namespace but is none of the
\* recognised values changes nothing: not the dialog state, the session, the
\* cursor, the profile store or the like store.
C20_UnknownTokenIgnored ==
    [][(InNamespace(last'.text) /\ ~Recognised(last'.text))
          => UNCHANGED <<state, data, view_contexts, profiles, likes>>]_vars

\* this step hands an event of u to one of the two edit entries
EditRequestStep(u) ==
    /\ last'.user = u
    /\ last'.handler \in {"cmd_edit", "profile_edit_callback"}

\* C21: a user comes to ChoosingServer only by a creation command handled
\* while they have no stored profile; an edit request (/edit or the edit
\* button, as the dispatcher hands it to its handler) of a user with a stored
\* profile opens the dialog at Nickname with editing set and every field of
\* the session equal to the stored profile's; an edit request of a user
\* without stored profile leaves the dialog state and the session as they were.
C21_EntryByProfile ==
    [][\A u \in Users :
        /\ (state[u] # "choosing_server" /\ state'[u] = "choosing_server")
              => /\ last'.user = u
                 /\ last'.handler = "cmd_start"
                 /\ u \notin DOMAIN profiles
        /\ (EditRequestStep(u) /\ u \in DOMAIN profiles)
              => /\ state'[u] = "nickname"
                 /\ Entry(data'[u], "editing") = <<TRUE>>
                 /\ \A f \in ProfileFields : Entry(data'[u], f) = <<profiles[u][f]>>
        /\ (state[u] # "nickname" /\ state'[u] = "nickname" /\ Editing(data'[u]))
              => EditRequestStep(u) /\ u \in DOMAIN profiles
        /\ (EditRequestStep(u) /\ u \notin DOMAIN profiles)
              => UNCHANGED <<state, data>>]_vars

\* /edit opened the dialog on a stored profile of rank 55, whose fields are
\* in the session
C21_Witness ==
    /\ last.handler = "cmd_edit"
    /\ last.state = None
    /\ state[last.user] = "nickname"
    /\ last.user \in DOMAIN profiles
    /\ profiles[last.user].adventure_rank = <<"5", "5">>
    /\ Entry(data[last.user], "adventure_rank") = << <<"5", "5">> >>
    /\ Editing(data[last.user])

\* /edit came from a user without stored profile, who had deleted it
C21_WitnessNone ==
    /\ last.handler = "cmd_edit"
    /\ last.user \notin DOMAIN profiles
    /\ state[last.user] = None
    /\ data[last.user] = EmptyDict
    /\ clock > 1

\* C22: from an empty store on, through create dialogs, edit dialogs (steps
\* answered "-" among them), confirms and deletes, the rank of every stored
\* profile is "" or the decimal text of an integer of 1..60.
C22_StoredRankInRange ==
    \A u \in DOMAIN profiles :
        profiles[u].adventure_rank \in {EmptyStr} \cup {PyStr(n) : n \in AR_MIN..AR_MAX}

\* an edit dialog was confirmed and the stored rank is the 60 an earlier
\* answer "+60" had given
C22_Witness ==
    /\ last.handler = "process_confirm"
    /\ last.text = P_confirm \o S_yes
    /\ Editing(last.data)
    /\ last.user \in DOMAIN profiles
    /\ profiles[last.user].adventure_rank = <<"6", "0">>

\* a profile is stored without rank
C22_WitnessEmpty ==
    \E u \in DOMAIN profiles : profiles[u].adventure_rank = EmptyStr

\* ------------------------------------------- a pool that grows and shrinks

\* one user more than Users, so that a server can hold three profiles at
\* the bounds the other specifications run with
PoolUsers == 1..(NumUsers + 1)
\* the user who stores a profile while the viewer browses
PoolAuthor == NumUsers

\* a stored pool on one server, the profiles created in the order of their
\* owners' ids
InitPool ==
    /\ \E owners \in SUBSET PoolUsers :
            /\ profiles = [u \in owners |->
                              InitialRow(u, SERVERS[1], Cardinality({v \in owners : v <= u}))]
            /\ clock = Cardinality(owners) + 1
    /\ likes = EmptyBag
    /\ state = [u \in PoolUsers |-> None]
    /\ data = [u \in PoolUsers |-> EmptyDict]
    /\ view_contexts = EmptyDict
    /\ developer = {}
    /\ blocked = {}
    /\ tasks = EmptyBag
    /\ returns = EmptyBag
    /\ last = NoEvent

NextPool ==
    \/ \E u \in Viewers :
        \/ \E cb \in BrowseInputs(OneServer) : process_browse_server(u, cb)
        \/ \E t \in {BTN_LIKE, BTN_DISLIKE, BTN_STOP} : handle_action_message(u, t)
    \/ \E u \in PoolUsers : profile_delete_confirm(u, CB_profile_delete_confirm)
    \/ cmd_start(PoolAuthor, T_start)
    \/ process_server_with_state(PoolAuthor, P_server \o SERVERS[1])
    \/ process_nickname(PoolAuthor, T_Aether)
    \/ process_uid(PoolAuthor, DASH)
    \/ process_ar(PoolAuthor, DASH)
    \/ process_lang_toggle(PoolAuthor, P_lang \o S_DONE)
    \/ process_playtime(PoolAuthor, DASH)
    \/ process_bio(PoolAuthor, T_hi)
    \/ process_confirm(PoolAuthor, P_confirm \o S_yes)

\* one viewer browsing a server while profiles are stored and deleted
SpecPool == InitPool /\ [][NextPool]_vars

\* C23: every cursor has total >= 1 and 0 <= offset <= total - 1, total being
\* the count its last render recorded, also when profiles are stored or
\* deleted between two renders.
C23_CursorInRange ==
    \A u \in DOMAIN view_contexts :
        /\ view_contexts[u].total >= 1
        /\ 0 <= view_contexts[u].offset
        /\ view_contexts[u].offset <= view_contexts[u].total - 1

\* a Dislike rendered the one profile left of three: the cursor came from
\* offset 1 of 3 to offset 0 of 1
C23_Witness ==
    /\ last.handler = "handle_action_message"
    /\ last.text = BTN_DISLIKE
    /\ last.ctx # <<>>
    /\ last.ctx[1].offset = 1
    /\ last.ctx[1].total = 3
    /\ last.user \in DOMAIN view_contexts
    /\ view_contexts[last.user].offset = 0
    /\ view_contexts[last.user].total = 1

\* a cursor records fewer profiles than the server holds now
C23_WitnessGrown ==
    \E u \in DOMAIN view_contexts :
        view_contexts[u].total < count_profiles(profiles, view_contexts[u].server)

\* this step handles an event of u that is no choice of a server, and u has
\* a cursor before and after it
SessionStep(u) ==
    /\ u \in DOMAIN view_contexts
    /\ u \in DOMAIN view_contexts'
    /\ ~(last'.user = u /\ last'.handler = "process_browse_server")

\* C24: within a browsing session every step leaves the offset of
\* the cursor as it was or raises it by exactly 1, also when the pool of the
\* server has shrunk since the last render.
C24_OffsetNeverDecreases ==
    [][\A u \in PoolUsers :
        SessionStep(u) =>
            \/ view_contexts'[u].offset = view_contexts[u].offset
            \/ view_contexts'[u].offset = view_contexts[u].offset + 1]_vars

\* -------------------------------------- a viewer who answers with Dislike

\* the stored pools of PoolUsers over the servers, in every creation order
InitDislike ==
    /\ \E owners \in SUBSET PoolUsers :
        \E srv \in [owners -> BrowseServers] :
            \E at \in {f \in [owners -> 1..Cardinality(owners)] :
                          \A a, b \in owners : a # b => f[a] # f[b]} :
                /\ profiles = [u \in owners |-> InitialRow(u, srv[u], at[u])]
                /\ clock = Cardinality(owners) + 1
    /\ likes = EmptyBag
    /\ state = [u \in PoolUsers |-> None]
    /\ data = [u \in PoolUsers |-> EmptyDict]
    /\ view_contexts = EmptyDict
    /\ developer = {}
    /\ blocked = {}
    /\ tasks = EmptyBag
    /\ returns = EmptyBag
    /\ last = NoEvent

\* the viewer's answer to a card
Dislikes == \E u \in Viewers : handle_action_message(u, BTN_DISLIKE)

\* the viewer chooses a server when they have no cursor, and answers Dislike
NextDislike ==
    \/ \E u \in Viewers :
          /\ u \notin DOMAIN view_contexts
          /\ \E cb \in BrowseInputs(BrowseServers) : process_browse_server(u, cb)
    \/ Dislikes

\* no profile is stored or deleted, and the viewer goes on answering
SpecDislike == InitDislike /\ [][NextDislike]_vars /\ WF_vars(Dislikes)

\* how many profiles of the server were created after the profile of owner
NewerThan(server, owner) ==
    Cardinality({t \in DOMAIN profiles :
                    /\ profiles[t].server = server
                    /\ profiles[t].created_at > profiles[owner].created_at})

\* C25: with the profile store unchanged, a viewer who answers every card of
\* a server holding n >= 1 profiles with Dislike sees the n profiles newest
\* first, each once: the card at offset k is the profile with exactly k newer
\* ones on the server, the choice of the server shows offset 0, a Dislike at
\* offset k < n - 1 shows offset k + 1, the Dislike at offset n - 1 (the n-th)
\* removes the cursor, and every session comes to that end.
C25_DislikeWalk ==
    /\ [](\A u \in DOMAIN view_contexts :
             LET c == view_contexts[u]
             IN /\ c.total = count_profiles(profiles, c.server)
                /\ c.owner_id \in DOMAIN profiles
                /\ profiles[c.owner_id].server = c.server
                /\ NewerThan(c.server, c.owner_id) = c.offset)
    /\ [][\A u \in Viewers :
            /\ (u \notin DOMAIN view_contexts /\ u \in DOMAIN view_contexts')
                  => view_contexts'[u].offset = 0
            /\ (u \in DOMAIN view_contexts /\ last'.text = BTN_DISLIKE)
                  => IF view_contexts[u].offset + 1
                           < count_profiles(profiles, view_contexts[u].server)
                     THEN /\ u \in DOMAIN view_contexts'
                          /\ view_contexts'[u].server = view_contexts[u].server
                          /\ view_contexts'[u].offset = view_contexts[u].offset + 1
                     ELSE u \notin DOMAIN view_contexts']_vars
    /\ \A u \in Viewers : (u \in DOMAIN view_contexts) ~> (u \notin DOMAIN view_contexts)

\* the third Dislike on a server of three profiles removed the cursor, which
\* was on the oldest profile
C25_Witness ==
    /\ last.handler = "handle_action_message"
    /\ last.text = BTN_DISLIKE
    /\ last.ctx # <<>>
    /\ last.ctx[1].offset = 2
    /\ last.ctx[1].total = 3
    /\ profiles[last.ctx[1].owner_id].created_at = 1
    /\ last.user \notin DOMAIN view_contexts

\* the cursor is on the second newest of three profiles, whose owner is
\* neither the one with the largest nor the one with the smallest id
C25_WitnessMiddle ==
    \E u \in DOMAIN view_contexts :
        /\ view_contexts[u].offset = 1
        /\ view_contexts[u].total = 3
        /\ profiles[view_contexts[u].owner_id].created_at = 2
        /\ view_contexts[u].owner_id = 1

\* ------------------------------------------- owners the bot cannot reach

\* a stored pool on one server, and any set of users who have blocked the bot
InitNotify ==
    /\ \E owners \in SUBSET PoolUsers :
            /\ profiles = [u \in owners |->
                              InitialRow(u, SERVERS[1], Cardinality({v \in owners : v <= u}))]
            /\ clock = Cardinality(owners) + 1
    /\ likes = EmptyBag
    /\ state = [u \in PoolUsers |-> None]
    /\ data = [u \in PoolUsers |-> EmptyDict]
    /\ view_contexts = EmptyDict
    /\ developer = {}
    /\ blocked \in SUBSET PoolUsers
    /\ tasks = EmptyBag
    /\ returns = EmptyBag
    /\ last = NoEvent

NextNotify ==
    \E u \in Viewers :
        \/ \E cb \in BrowseInputs(OneServer) : process_browse_server(u, cb)
        \/ \E t \in {BTN_LIKE, BTN_DISLIKE, BTN_STOP} : handle_action_message(u, t)

\* one viewer liking the cards of owners some of whom cannot be notified
SpecNotify == InitNotify /\ [][NextNotify]_vars

\* in this step the sender presses Like on the card of another user whom they
\* have not liked
FreshLikeStep(u) ==
    /\ last'.handler = "handle_action_message"
    /\ last'.user = u
    /\ last'.text = BTN_LIKE
    /\ state[u] = None
    /\ u \in DOMAIN view_contexts
    /\ view_contexts[u].owner_id \notin {NoOwner, u}
    /\ ~BagIn(LikeRow(u, view_contexts[u].owner_id), likes)

\* the cursor of u has moved on by one card, or is gone at the end of the list
MovedOn(u) ==
    IF view_contexts[u].offset + 1 >= view_contexts[u].total
    THEN u \notin DOMAIN view_contexts'
    ELSE /\ u \in DOMAIN view_contexts'
         /\ view_contexts'[u].server = view_contexts[u].server
         /\ view_contexts'[u].offset = view_contexts[u].offset + 1

C26_WitnessEnd ==
    /\ last.handler = "handle_action_message"
    /\ last.text = BTN_LIKE
    /\ last.ctx # <<>>
    /\ last.ctx[1].owner_id \in blocked
    /\ BagIn(LikeRow(last.user, last.ctx[1].owner_id), likes)
    /\ last.user \notin DOMAIN view_contexts

\* ------------------------------------------------ every kind of event

ComplainInputs == {P_complain \o PyStr(o) \o <<":">> \o PyStr(o) : o \in Users}

\* every kind of event, from one user who is the developer too: the dialog
\* with one answer at each step, the profile buttons, the report button, the
\* forced deletes and the browsing
NextFrame ==
    \E u \in FormUsers :
        \/ cmd_start(u, T_start)
        \/ cmd_edit(u, T_edit)
        \/ cmd_cancel(u, T_cancel)
        \/ unhandled_message(u, T_cancel)
        \/ profile_edit_callback(u, CB_profile_edit)
        \/ process_server_with_state(u, P_server \o SERVERS[1])
        \/ process_nickname(u, T_Aether)
        \/ process_uid(u, DASH)
        \/ process_ar(u, <<"5", "5">>)
        \/ process_lang_toggle(u, P_lang \o S_DONE)
        \/ process_languages_text_blocked(u, T_hi)
        \/ process_playtime(u, <<"3">>)
        \/ process_bio(u, <<"o", "k">>)
        \/ \E cb \in ConfirmInputs : process_confirm(u, cb)
        \/ profile_delete_request(u, CB_profile_delete)
        \/ profile_delete_cancel(u, CB_profile_delete_cancel)
        \/ profile_delete_confirm(u, CB_profile_delete_confirm)
        \/ \E cb \in ComplainInputs : handle_complain(u, cb)
        \/ \E t \in DeleteCommandInputs : cmd_delete_profile(u, t)
        \/ \E cb \in DeleteTokenInputs : dev_delete_profile_callback(u, cb)
        \/ \E cb \in BrowseInputs(OneServer) : process_browse_server(u, cb)
        \/ \E t \in ACTION_TEXTS : handle_action_message(u, t)
        \/ handle_sending_message(u, T_hi)

SpecFrame == InitTokens /\ [][NextFrame]_vars

\* the rows of every user but u are the same before and after this step
OthersKept(u) ==
    \A t \in ((DOMAIN profiles) \cup (DOMAIN profiles')) \ {u} :
        /\ t \in DOMAIN profiles
        /\ t \in DOMAIN profiles'
        /\ profiles'[t] = profiles[t]

\* C27: the profile store changes only in a step that handles an accepted
\* Confirm, which stores the row of the confirming user and no other, or a
\* delete (the owner's delete_confirm, a forced delete), which removes rows and
\* changes none; every other event (form steps, a rejected Confirm, cancel,
\* delete request, delete cancel, server choice, Like, Dislike, Message, Stop,
\* report) leaves every stored profile as it was.
C27_StoreFrame ==
    [][profiles' # profiles =>
          \/ /\ last'.handler = "process_confirm"
             /\ last'.text = P_confirm \o S_yes
             /\ last'.user \in DOMAIN profiles'
             /\ OthersKept(last'.user)
          \/ /\ last'.handler \in {"profile_delete_confirm", "cmd_delete_profile",
                                   "dev_delete_profile_callback"}
             /\ DOMAIN profiles' \subseteq DOMAIN profiles
             /\ \A t \in DOMAIN profiles' : profiles'[t] = profiles[t]]_vars

\* an edit dialog was confirmed with a new bio while another user's profile
\* is stored, and only the confirming user's row has the new bio
C27_Witness ==
    /\ last.handler = "process_confirm"
    /\ last.text = P_confirm \o S_yes
    /\ Editing(last.data)
    /\ last.user \in DOMAIN profiles
    /\ profiles[last.user].bio = <<"o", "k">>
    /\ \E t \in (DOMAIN profiles) \ {last.user} : profiles[t].bio = T_hi

\* a dialog was rejected at Confirm and the stored bio is the one from before
C27_WitnessReject ==
    /\ last.handler = "process_confirm"
    /\ last.text = P_confirm \o S_no
    /\ Entry(last.data, "bio") = << <<"o", "k">> >>
    /\ last.user \in DOMAIN profiles
    /\ profiles[last.user].bio = T_hi

\* C28: after a choice of server is handled, the viewer has no cursor or one
\* cursor, on the server just chosen, at offset 0; a cursor of an earlier
\* session does not outlive the choice of a server without profiles.
C28_SelectionResetsCursor ==
    last.handler = "process_browse_server" =>
        \/ last.user \notin DOMAIN view_contexts
        \/ /\ view_contexts[last.user].server = SplitOnce(last.text, ":")[2]
           /\ view_contexts[last.user].offset = 0

\* C29: every edge of the like store has an owner with a stored profile: no
\* like outlives the deletion of its owner's profile, and a Like on a cursor
\* whose profile was deleted after it was rendered inserts no edge.
C29_LikesTargetProfiles ==
    \A r \in BagToSet(likes) : r.owner_id \in DOMAIN profiles

\* C30: when the steps of two actions of one viewer interleave at the awaits,
\* the cursor is the one a serial order of the two gives; so a viewer whose
\* cursor a Stop has removed gets a cursor again only by choosing a server,
\* not in a step that completes a Like begun before the Stop.
C30_NoCursorAfterStop ==
    [][\A u \in Users :
        (u \notin DOMAIN view_contexts /\ u \in DOMAIN view_contexts')
            => /\ tasks' = tasks
               /\ last'.user = u
               /\ last'.handler = "process_browse_server"]_vars

\* ------------------------------------------- a reply that cannot be sent

\* the dialog with "-" or one other answer at each text step, the owner's
\* delete, and an /edit whose reply raises
NextSendFail ==
    \E u \in FormUsers :
        \/ cmd_start(u, T_start)
        \/ cmd_edit(u, T_edit)
        \/ cmd_edit_answer_raises(u, T_edit)
        \/ profile_delete_confirm(u, CB_profile_delete_confirm)
        \/ process_server_with_state(u, P_server \o SERVERS[1])
        \/ \E t \in {T_Aether, DASH} : process_nickname(u, t)
        \/ process_uid(u, DASH)
        \/ \E t \in {<<"5", "5">>, DASH} : process_ar(u, t)
        \/ process_lang_toggle(u, P_lang \o S_DONE)
        \/ process_playtime(u, DASH)
        \/ \E t \in {T_hi, DASH} : process_bio(u, t)
        \/ \E cb \in ConfirmInputs : process_confirm(u, cb)

SpecSendFail == InitEmpty /\ [][NextSendFail]_vars

\* C31: a user in no dialog state has an empty session, so that a creation
\* dialog starts without editing set and without fields from an earlier
\* profile, also after a reply of the edit entry could not be sent.
C31_IdleSessionEmpty ==
    /\ \A u \in Users : state[u] = None => data[u] = EmptyDict
    /\ \A u \in Users : state[u] = "choosing_server" => data[u] = EmptyDict

====
